---- MODULE Spec2Model ----
(***************************************************************************)
(* Model of lib/sitemap.ts: the Sitemap document (keyed entry collection,  *)
(* time-based serialization cache), the static normalizeURL/normalizeURLs  *)
(* functions, and the SitemapStream transform.                             *)
(*                                                                         *)
(* Strings are modelled structurally.  A URL string is a record            *)
(*   [kind, host, rooted, segs]                                            *)
(* kind = "abs": scheme://host followed by the path segments (rooted =     *)
(*               FALSE and segs = <<>> is the form without any path),      *)
(* kind = "rel": a relative reference; rooted = TRUE is "/seg/seg",        *)
(*               rooted = FALSE is "seg/seg", segs = <<>> is '',           *)
(* kind = "bad": a string the URL parser rejects whatever the base.        *)
(* An optional value (a field that may be undefined) is a set with at most *)
(* one element.                                                            *)
(***************************************************************************)
EXTENDS Integers, Sequences, FiniteSets

VARIABLES
  hostname,           \* Sitemap.hostname / SitemapStream.hostname (optional)
  cacheTime,          \* Sitemap.cacheTime
  cache,              \* Sitemap.cache
  cacheSetTimestamp,  \* Sitemap.cacheSetTimestamp
  xslUrl,             \* Sitemap.xslUrl (optional)
  xmlNs,              \* Sitemap.xmlNs
  root,               \* Sitemap.root and the XML document that owns it
  urls,               \* Sitemap.urls, a Map in insertion order
  ctorUrls,           \* the urls argument the constructor was given
  now,                \* the clock read by Date.now()
  op,                 \* the last operation called
  arg,                \* its argument, as the caller sees it after the call
  sizeBefore,         \* this.urls.size when the last operation was called
  addLevel,           \* the level argument of the last add
  ret,                \* what it returned
  hasHeadOutput,      \* SitemapStream.hasHeadOutput
  level,              \* SitemapStream.level
  output,             \* chunks pushed to the readable side of the stream
  written,            \* items written to the stream so far
  wedged,             \* a _transform call threw: the write never completes
  ended,              \* _flush has run
  elem,               \* normalizeURL: the elem argument
  normOut,            \* normalizeURL: its outcome (optional)
  indexConf,          \* createSitemapIndex: its configuration argument
  pc,                 \* createSitemapIndex: how far the call has got
  chunks,             \* createSitemapIndex: the partition of the urls
  files,              \* createSitemapIndex: the documents written so far
  indexDoc,           \* createSitemapIndex: the index written (optional)
  indexErr,           \* createSitemapIndex: the error it failed with
  refs,               \* buildSitemapIndex: the urls argument
  built               \* buildSitemapIndex: its result (optional)

vars == <<hostname, cacheTime, cache, cacheSetTimestamp, xslUrl, xmlNs, root,
          urls, ctorUrls, now, op, arg, sizeBefore, addLevel, ret,
          hasHeadOutput, level, output,
          written, wedged, ended, elem, normOut,
          indexConf, pc, chunks, files, indexDoc, indexErr, refs, built>>

docVars == <<cacheTime, cache, cacheSetTimestamp, xslUrl, xmlNs, root, urls,
             ctorUrls, now, op, arg, sizeBefore, addLevel, ret>>

streamVars == <<hasHeadOutput, level, output, written, wedged, ended>>

normVars == <<elem, normOut>>

indexVars == <<indexConf, pc, chunks, files, indexDoc, indexErr, refs, built>>

(***************************************************************************)
(* URL strings and the WHATWG URL constructor                              *)
(***************************************************************************)
AbsURL(h, rooted, segs) ==
  [kind |-> "abs", host |-> h, rooted |-> rooted, segs |-> segs]

RelURL(rooted, segs) ==
  [kind |-> "rel", host |-> "", rooted |-> rooted, segs |-> segs]

BadURLStr ==
  [kind |-> "bad", host |-> "", rooted |-> FALSE, segs |-> <<>>]

\* the empty string ''
EmptyStr ==
  RelURL(FALSE, <<>>)

\* JavaScript truthiness of a string: only '' is falsy
TruthyStr(s) ==
  s # EmptyStr

\* the host parser lowercases ASCII letters
ToLowerHost(h) ==
  IF h = "H1" THEN "h1" ELSE h

\* outcome of a failed parse: new URL throws TypeError (Invalid URL)
InvalidURL ==
  [ok |-> FALSE, href |-> BadURLStr]

\* parsing an absolute URL string and serializing it again: the host is
\* lowercased and an absent path becomes "/"
ParseAbs(u) ==
  [ok |-> TRUE,
   href |-> AbsURL(ToLowerHost(u.host), TRUE,
                   IF u.segs = <<>> THEN <<"">> ELSE u.segs)]

\* mutant of BasicParse: a relative reference is accepted without a base
BasicParseLenient(u) ==
  IF u.kind # "bad" THEN ParseAbs(u) ELSE InvalidURL

\* new URL(input) with no base
BasicParse(u) ==
  IF u.kind = "abs" THEN ParseAbs(u) ELSE InvalidURL

\* (new URL(input, base)).toString(); base is optional.  The base is parsed
\* first and must itself be an absolute URL.
NewURL(input, base) ==
  IF base = {}
  THEN BasicParse(input)
  ELSE LET b == BasicParse(CHOOSE x \in base : TRUE) IN
       IF ~b.ok THEN InvalidURL
       ELSE IF input.kind = "bad" THEN InvalidURL
       ELSE IF input.kind = "abs" THEN ParseAbs(input)
       ELSE IF input.rooted
            THEN [ok |-> TRUE, href |-> AbsURL(b.href.host, TRUE, input.segs)]
       ELSE IF input.segs = <<>>
            THEN b
       ELSE [ok |-> TRUE,
             href |-> AbsURL(b.href.host, TRUE,
                             SubSeq(b.href.segs, 1, Len(b.href.segs) - 1)
                               \o input.segs)]

(***************************************************************************)
(* Loose and strict entries                                                *)
(*                                                                         *)
(* A loose entry (string | ISitemapItemOptionsLoose) is a record           *)
(*   [isString, url, img, links, video, lastmodfile, lastmodISO, lastmod,  *)
(*    priority]                                                            *)
(* img, links and video are [form, items]: form says whether the caller    *)
(* gave nothing ("absent"), one string ("string"), one object ("object")   *)
(* or an array ("array"); items holds what was given.  A bare string elem  *)
(* has isString = TRUE and every other field absent.                       *)
(***************************************************************************)
Absent ==
  [form |-> "absent", items |-> <<>>]

\* a date string or Date value: valid says whether Date can parse it, day
\* is the instant, full says whether it is in toISOString form
DateStr(valid, day, full) ==
  [valid |-> valid, day |-> day, full |-> full]

\* Date.prototype.toISOString (throws RangeError on an invalid date)
ToISOString(d) ==
  DateStr(TRUE, d.day, TRUE)

\* statSync(path).mtime: the one file that exists was modified on day 7;
\* statSync throws ENOENT for any other path
StatSync(path) ==
  IF path = "exists.txt" THEN {DateStr(TRUE, 7, FALSE)} ELSE {}

BoolToYESNO(bool) ==
  IF bool = "undefined" THEN bool
  ELSE IF bool \in {"true", "false"}
       THEN (IF bool = "true" THEN "yes" ELSE "no")
  ELSE bool

\* if (smiLoose.img): '' is falsy, every object and array is truthy
ImgTruthy(f) ==
  /\ f.form # "absent"
  /\ f.form = "string" => TruthyStr(f.items[1].url)

\* mutant of ImgToArray: a single image object is dropped instead of wrapped
ImgToArrayLosesSingle(f) ==
  IF f.form = "string"
  THEN [form |-> "array",
        items |-> <<[isStr |-> FALSE, url |-> f.items[1].url, caption |-> {}]>>]
  ELSE IF f.form # "array"
       THEN [form |-> "array", items |-> <<>>]
  ELSE f

\* the assignment to smiLoose.img: a string or a single object is replaced
\* by a one-element array
ImgToArray(f) ==
  IF f.form = "string"
  THEN [form |-> "array",
        items |-> <<[isStr |-> FALSE, url |-> f.items[1].url, caption |-> {}]>>]
  ELSE IF f.form # "array"
       THEN [form |-> "array", items |-> f.items]
  ELSE f

\* smiLoose.img.map(el => typeof el === 'string' ? {url: el} : el)
ImgObjects(items) ==
  [i \in 1..Len(items) |->
     IF items[i].isStr
     THEN [isStr |-> FALSE, url |-> items[i].url, caption |-> {}]
     ELSE items[i]]

\* mutant of ResolveImg: the image urls are copied as given
ResolveImgVerbatim(img, host) ==
  [threw |-> FALSE,
   list |-> [i \in 1..Len(img) |->
               [url |-> img[i].url, caption |-> img[i].caption]]]

\* img.map(el => ({...el, url: (new URL(el.url, hostname)).toString()}))
ResolveImg(img, host) ==
  [threw |-> \E i \in 1..Len(img) : ~NewURL(img[i].url, host).ok,
   list |-> [i \in 1..Len(img) |->
               [url |-> NewURL(img[i].url, host).href,
                caption |-> img[i].caption]]]

\* links.map(link => ({...link, url: (new URL(link.url, hostname)).toString()}));
\* a links value that is not an array has no map method (TypeError)
ResolveLinks(f, host) ==
  LET links == IF f.form # "absent" THEN f.items ELSE <<>> IN
  [threw |-> \/ f.form \notin {"absent", "array"}
             \/ \E i \in 1..Len(links) : ~NewURL(links[i].url, host).ok,
   list |-> [i \in 1..Len(links) |->
               [lang |-> links[i].lang,
                url |-> NewURL(links[i].url, host).href]]]

\* the assignment to smiLoose.video: a single object becomes a one-element
\* array
VideoToArray(f) ==
  IF f.form # "array" THEN [form |-> "array", items |-> f.items] ELSE f

\* the body of smiLoose.video.map: every field of the video is copied
\* (thumbnail_loc and content_loc included, as given), the flags, tag,
\* rating and view_count are normalized
NormVideo(video) ==
  [thumbnail_loc |-> video.thumbnail_loc,
   content_loc |-> video.content_loc,
   family_friendly |-> BoolToYESNO(video.family_friendly),
   live |-> BoolToYESNO(video.live),
   requires_subscription |-> BoolToYESNO(video.requires_subscription),
   tag |-> IF video.tag.form # "undefined"
           THEN [form |-> "array", items |-> video.tag.items]
           ELSE [form |-> "array", items |-> <<>>],
   rating |-> IF video.rating.t # "undefined"
              THEN [t |-> "number", v |-> video.rating.v]
              ELSE video.rating,
   view_count |-> IF video.view_count.t # "undefined"
                  THEN [t |-> "string", v |-> video.view_count.v]
                  ELSE video.view_count]

\* mutant of LastMod: the three fields are tried in the opposite order
LastModReversed(smiLoose) ==
  IF smiLoose.lastmod # {}
  THEN [threw |-> \E d \in smiLoose.lastmod : ~d.valid, has |-> TRUE,
        value |-> {ToISOString(d) : d \in smiLoose.lastmod}]
  ELSE IF smiLoose.lastmodISO # {}
  THEN [threw |-> \E d \in smiLoose.lastmodISO : ~d.valid, has |-> TRUE,
        value |-> {ToISOString(d) : d \in smiLoose.lastmodISO}]
  ELSE IF smiLoose.lastmodfile # {}
  THEN LET mtime == StatSync(CHOOSE f \in smiLoose.lastmodfile : TRUE) IN
       [threw |-> mtime = {}, has |-> TRUE,
        value |-> {ToISOString(m) : m \in mtime}]
  ELSE [threw |-> FALSE, has |-> FALSE, value |-> {}]

\* lastmodfile, then lastmodISO, then lastmod; has says whether smi.lastmod
\* was assigned
LastMod(smiLoose) ==
  IF smiLoose.lastmodfile # {}
  THEN LET mtime == StatSync(CHOOSE f \in smiLoose.lastmodfile : TRUE) IN
       [threw |-> mtime = {}, has |-> TRUE,
        value |-> {ToISOString(m) : m \in mtime}]
  ELSE IF smiLoose.lastmodISO # {}
  THEN [threw |-> \E d \in smiLoose.lastmodISO : ~d.valid, has |-> TRUE,
        value |-> {ToISOString(d) : d \in smiLoose.lastmodISO}]
  ELSE IF smiLoose.lastmod # {}
  THEN [threw |-> \E d \in smiLoose.lastmod : ~d.valid, has |-> TRUE,
        value |-> {ToISOString(d) : d \in smiLoose.lastmod}]
  ELSE [threw |-> FALSE, has |-> FALSE, value |-> {}]

\* mutant of SpreadMerge: the spread the other way round, the loose url wins
SpreadMergeLooseWins(smiLoose, url, img, links, video, lm) ==
  [url |-> smiLoose.url,
   img |-> img,
   links |-> links,
   video |-> video,
   lastmod |-> IF lm.has THEN lm.value ELSE smiLoose.lastmod,
   lastmodISO |-> smiLoose.lastmodISO,
   lastmodfile |-> smiLoose.lastmodfile,
   priority |-> smiLoose.priority]

\* smi = {...smiLoose, ...smi}: the computed url, img, video and links, and
\* the computed lastmod when one was assigned, win over the loose fields;
\* every other loose field passes through
SpreadMerge(smiLoose, url, img, links, video, lm) ==
  [url |-> url,
   img |-> img,
   links |-> links,
   video |-> video,
   lastmod |-> IF lm.has THEN lm.value ELSE smiLoose.lastmod,
   lastmodISO |-> smiLoose.lastmodISO,
   lastmodfile |-> smiLoose.lastmodfile,
   priority |-> smiLoose.priority]

\* the value of smi when normalizeURL throws (there is none)
NoSmi ==
  [url |-> BadURLStr, img |-> <<>>, links |-> <<>>, video |-> <<>>,
   lastmod |-> {}, lastmodISO |-> {}, lastmodfile |-> {}, priority |-> {}]

Threw(e) ==
  [threw |-> TRUE, smi |-> NoSmi, elem |-> e]

\* Sitemap.normalizeURL(elem, root, hostname).  The outcome is
\* [threw, smi, elem]: whether the call threw, the strict entry returned,
\* and the caller's elem as the call leaves it (smiLoose aliases elem when
\* elem is an object, so the assignments to smiLoose.img and smiLoose.video
\* are visible to the caller; a string elem is copied into a fresh object).
NormalizeURL(e, host) ==
  LET u == NewURL(e.url, host)
      hasImg == ImgTruthy(e.img)
      loose1 == IF hasImg THEN [e EXCEPT !.img = ImgToArray(@)] ELSE e
      img == IF hasImg THEN ImgObjects(loose1.img.items) ELSE <<>>
      smiImg == ResolveImg(img, host)
      smiLinks == ResolveLinks(loose1.links, host)
      hasVideo == loose1.video.form # "absent"
      loose2 == IF hasVideo
                THEN [loose1 EXCEPT !.video = VideoToArray(@)]
                ELSE loose1
      smiVideo == IF hasVideo
                  THEN [i \in 1..Len(loose2.video.items) |->
                          NormVideo(loose2.video.items[i])]
                  ELSE <<>>
      lm == LastMod(loose2)
  IN IF ~u.ok THEN Threw(e)
     ELSE IF smiImg.threw \/ smiLinks.threw THEN Threw(loose1)
     ELSE IF lm.threw THEN Threw(loose2)
     ELSE [threw |-> FALSE,
           smi |-> SpreadMerge(loose2, u.href, smiImg.list, smiLinks.list,
                               smiVideo, lm),
           elem |-> loose2]

\* Sitemap.normalizeURLs: forEach over the list, urlMap.set for each.  A Map
\* is a sequence of entries in insertion order, keyed by entry.url.
MapHas(m, k) ==
  \E i \in 1..Len(m) : m[i].url = k

\* mutant of MapSet: no look-up of the key, every set appends
MapSetAppends(m, k, v) ==
  Append(m, v)

\* mutant of MapSet: an existing key is removed and appended again
MapSetMovesToEnd(m, k, v) ==
  Append(SelectSeq(m, LAMBDA x : x.url # k), v)

\* Map.prototype.set: an existing key keeps its position and gets the new
\* value, a new key is appended
MapSet(m, k, v) ==
  IF MapHas(m, k)
  THEN [i \in 1..Len(m) |-> IF m[i].url = k THEN v ELSE m[i]]
  ELSE Append(m, v)

\* mutant of MapDelete: removes the newest entry instead of the keyed one
MapDeleteLast(m, k) ==
  SubSeq(m, 1, Len(m) - 1)

\* Map.prototype.delete
MapDelete(m, k) ==
  SelectSeq(m, LAMBDA x : x.url # k)

RECURSIVE NormalizeURLsFrom(_, _, _)
NormalizeURLsFrom(list, host, urlMap) ==
  IF list = <<>>
  THEN [threw |-> FALSE, map |-> urlMap]
  ELSE LET smio == NormalizeURL(Head(list), host) IN
       IF smio.threw
       THEN [threw |-> TRUE, map |-> <<>>]
       ELSE NormalizeURLsFrom(Tail(list), host,
                              MapSet(urlMap, smio.smi.url, smio.smi))

NormalizeURLs(list, host) ==
  NormalizeURLsFrom(list, host, <<>>)

(***************************************************************************)
(* Validation (lib/utils.ts) and element building (lib/sitemap-item.ts)    *)
(***************************************************************************)
\* priority outside [0.0, 1.0] or a video rating outside [0.0, 5.0], in
\* tenths
Violates(smi) ==
  \/ \E p \in smi.priority : p < 0 \/ p > 10
  \/ \E i \in 1..Len(smi.video) :
       /\ smi.video[i].rating.t = "number"
       /\ (smi.video[i].rating.v < 0 \/ smi.video[i].rating.v > 50)

\* validateSMIOptions(smi, level) throws: only at level error; an undefined
\* level is the default, warn
ValidateThrows(smi, lvl) ==
  lvl = "error" /\ Violates(smi)

\* the url element SitemapItem builds for one entry: loc and one
\* sub-element per populated field
UrlElement(smi) ==
  [loc |-> smi.url, lastmod |-> smi.lastmod, priority |-> smi.priority,
   image |-> smi.img, video |-> smi.video, link |-> smi.links]

(***************************************************************************)
(* The Sitemap document                                                    *)
(***************************************************************************)
\* the empty string as a value of cache
NoStr ==
  [empty |-> TRUE, instr |-> 0, atts |-> {}, items |-> <<>>, pretty |-> FALSE]

\* root.attribute(k, v): an attribute set twice keeps the last value
Att(atts, k, v) ==
  {p \in atts : p[1] # k} \cup {<<k, v>>}

\* the attributes the constructor sets from xmlNs; xmlNs is the sequence of
\* k=v pairs of the string ('' is the empty sequence)
RECURSIVE NsAttributes(_, _)
NsAttributes(ns, atts) ==
  IF ns = <<>> THEN atts
  ELSE NsAttributes(Tail(ns), Att(atts, Head(ns)[1], Head(ns)[2]))

\* the six root.att calls of toString
DefaultNs ==
  <<<<"xmlns", "sitemap/0.9">>, <<"xmlns:news", "sitemap-news/0.9">>,
    <<"xmlns:xhtml", "1999/xhtml">>, <<"xmlns:mobile", "sitemap-mobile/1.0">>,
    <<"xmlns:image", "sitemap-image/1.1">>,
    <<"xmlns:video", "sitemap-video/1.1">>>>

\* root.instructionBefore('xml-stylesheet', ...): adds one more processing
\* instruction node to the document, in front of the root element
InstructionBefore(r) ==
  [r EXCEPT !.instr = @ + 1]

\* root.end(opts): the whole document as a string: the declaration, every
\* processing instruction in front of the root, the root with its
\* attributes and children
End(r, pretty) ==
  [empty |-> FALSE, instr |-> r.instr, atts |-> r.atts, items |-> r.children,
   pretty |-> pretty]

\* what two documents say, whitespace apart
Content(str) ==
  [str EXCEPT !.pretty = FALSE]

\* mutant of IsCacheValid: the cache expires one millisecond early
IsCacheValidStrict(currTimestamp) ==
  /\ cacheTime # 0
  /\ ~cache.empty
  /\ cacheSetTimestamp + cacheTime > currTimestamp

\* mutant of IsCacheValid: cacheTime = 0 is not treated as "disabled"
IsCacheValidNoSwitch(currTimestamp) ==
  /\ ~cache.empty
  /\ cacheSetTimestamp + cacheTime >= currTimestamp

IsCacheValid(currTimestamp) ==
  /\ cacheTime # 0
  /\ ~cache.empty
  /\ cacheSetTimestamp + cacheTime >= currTimestamp

\* the for loop of toString: one buildXML per entry of this.urls
BuildChildren(r, m) ==
  [r EXCEPT !.children = @ \o [i \in 1..Len(m) |-> UrlElement(m[i])]]

(***************************************************************************)
(* Bounds and the inputs the operations are called with                    *)
(***************************************************************************)
\* the clock runs from 1 to MaxTime
MaxTime == 3

\* toString is called while the document holds at most MaxInstr stylesheet
\* instructions
MaxInstr == 2

\* at most MaxWrites items are written to a stream
MaxWrites == 3

\* the non-zero cacheTime of the configurations
TTL == 1

LooseStr(u) ==
  [isString |-> TRUE, url |-> u, img |-> Absent, links |-> Absent,
   video |-> Absent, lastmodfile |-> {}, lastmodISO |-> {}, lastmod |-> {},
   priority |-> {}]

LooseObj(u) ==
  [LooseStr(u) EXCEPT !.isString = FALSE]

ImgStr(u) ==
  [isStr |-> TRUE, url |-> u, caption |-> {}]

ImgObj(u, c) ==
  [isStr |-> FALSE, url |-> u, caption |-> {c}]

\* 'http://h1' and 'http://h2/d/x'
HostH1 == AbsURL("h1", FALSE, <<>>)

HostH2 == AbsURL("h2", TRUE, <<"d", "x">>)

\* '/a', 'http://H1/a' (the same page once resolved against http://h1),
\* '/b', 'http://h2/b'
PathA == RelURL(TRUE, <<"a">>)

AbsA == AbsURL("H1", TRUE, <<"a">>)

PathB == RelURL(TRUE, <<"b">>)

AbsB == AbsURL("h2", TRUE, <<"b">>)

\* entries given to the constructor, add, contains and del
DocInputs ==
  { LooseStr(PathA),
    [LooseObj(AbsA) EXCEPT !.priority = {20}],
    [LooseObj(PathB) EXCEPT
       !.img = [form |-> "string", items |-> <<ImgStr(RelURL(TRUE, <<"i">>))>>]],
    LooseStr(BadURLStr) }

Levels == {"undefined", "silent", "warn", "error"}

\* the constructor arguments of the documents that are checked
Config(cUrls, cHost, cCacheTime, cXslUrl, cXmlNs, cLevel) ==
  [urls |-> cUrls, hostname |-> cHost, cacheTime |-> cCacheTime,
   xslUrl |-> cXslUrl, xmlNs |-> cXmlNs, level |-> cLevel]

CustomNs == <<<<"xmlns", "custom/0.9">>>>

Configs ==
  { Config(<<LooseStr(PathA),
             [LooseObj(PathB) EXCEPT
                !.img = [form |-> "string",
                         items |-> <<ImgStr(RelURL(TRUE, <<"i">>))>>]],
             [LooseObj(AbsA) EXCEPT !.priority = {20}]>>,
           {HostH1}, TTL, {}, <<>>, "warn"),
    Config(<<>>, {HostH1}, 0, {"style.xsl"}, <<>>, "error"),
    Config(<<LooseStr(AbsB)>>, {}, 0, {}, CustomNs, "silent"),
    Config(<<LooseStr(AbsB), LooseStr(AbsA)>>, {}, TTL, {"style.xsl"}, <<>>,
           "undefined"),
    \* constructor calls that throw
    Config(<<LooseStr(PathA)>>, {}, 0, {}, <<>>, "warn"),
    Config(<<[LooseObj(AbsA) EXCEPT !.priority = {20}]>>, {}, 0, {}, <<>>,
           "error") }

\* the value of arg for an operation without an entry argument, and of elem
\* while normalizeURL is not part of the behaviour
NoArg == LooseStr(EmptyStr)

NoRet ==
  [threw |-> FALSE, num |-> 0, bool |-> FALSE, str |-> NoStr, hit |-> FALSE]

\* a stream that is not part of the behaviour
StreamIdle ==
  /\ hasHeadOutput = FALSE
  /\ level = "warn"
  /\ output = <<>>
  /\ written = <<>>
  /\ wedged = FALSE
  /\ ended = FALSE

NormIdle ==
  /\ elem = NoArg
  /\ normOut = {}

\* no createSitemapIndex or buildSitemapIndex call is part of the behaviour
IndexIdle ==
  /\ indexConf = [urls |-> <<>>, sitemapSize |-> 1, targetFolder |-> "dir",
                  gzip |-> FALSE]
  /\ pc = "idle"
  /\ chunks = <<>>
  /\ files = <<>>
  /\ indexDoc = {}
  /\ indexErr = "none"
  /\ refs = <<>>
  /\ built = {}

DocIdle ==
  /\ cacheTime = 0
  /\ cache = NoStr
  /\ cacheSetTimestamp = 0
  /\ xslUrl = {}
  /\ xmlNs = <<>>
  /\ root = [instr |-> 0, atts |-> {}, children |-> <<>>]
  /\ urls = <<>>
  /\ ctorUrls = <<>>
  /\ now = 1
  /\ op = "none"
  /\ arg = NoArg
  /\ sizeBefore = 0
  /\ addLevel = "undefined"
  /\ ret = NoRet

(***************************************************************************)
(* Sitemap: constructor and operations                                     *)
(***************************************************************************)
\* new Sitemap({urls, hostname, cacheTime, xslUrl, xmlNs, level}); a
\* constructor call that throws constructs nothing
Constructor(cUrls, cHost, cCacheTime, cXslUrl, cXmlNs, cLevel) ==
  LET m == NormalizeURLs(cUrls, cHost) IN
  /\ ~m.threw
  /\ \A i \in 1..Len(m.map) : ~ValidateThrows(m.map[i], cLevel)
  /\ hostname = cHost
  /\ cacheTime = cCacheTime
  /\ cache = NoStr
  /\ cacheSetTimestamp = 0
  /\ xslUrl = cXslUrl
  /\ xmlNs = cXmlNs
  /\ root = [instr |-> 0, atts |-> NsAttributes(cXmlNs, {}), children |-> <<>>]
  /\ urls = m.map
  /\ ctorUrls = cUrls
  /\ now = 1
  /\ op = "new"
  /\ arg = NoArg
  /\ sizeBefore = 0
  /\ addLevel = "undefined"
  /\ ret = NoRet

Init ==
  /\ \E c \in Configs :
       Constructor(c.urls, c.hostname, c.cacheTime, c.xslUrl, c.xmlNs, c.level)
  /\ StreamIdle
  /\ NormIdle
  /\ IndexIdle

\* time passes between calls
Tick ==
  /\ now < MaxTime
  /\ now' = now + 1
  /\ UNCHANGED <<hostname, cacheTime, cache, cacheSetTimestamp, xslUrl, xmlNs,
                 root, urls, ctorUrls, op, arg, sizeBefore, addLevel, ret>>
  /\ UNCHANGED <<streamVars, normVars, indexVars>>

\* mutant of ClearCache: the cached string survives
ClearCacheKeepsString ==
  /\ cache' = cache
  /\ op' = "clearCache"
  /\ arg' = NoArg
  /\ sizeBefore' = Len(urls)
  /\ addLevel' = "undefined"
  /\ ret' = NoRet
  /\ UNCHANGED <<hostname, cacheTime, cacheSetTimestamp, xslUrl, xmlNs, root,
                 urls, ctorUrls, now>>
  /\ UNCHANGED <<streamVars, normVars, indexVars>>

ClearCache ==
  /\ cache' = NoStr
  /\ op' = "clearCache"
  /\ arg' = NoArg
  /\ sizeBefore' = Len(urls)
  /\ addLevel' = "undefined"
  /\ ret' = NoRet
  /\ UNCHANGED <<hostname, cacheTime, cacheSetTimestamp, xslUrl, xmlNs, root,
                 urls, ctorUrls, now>>
  /\ UNCHANGED <<streamVars, normVars, indexVars>>

\* mutant of Add: the entry is stored first and validated afterwards
AddValidatesAfterInsert(url, lvl) ==
  LET smi == NormalizeURL(url, hostname) IN
  /\ op' = "add"
  /\ arg' = smi.elem
  /\ sizeBefore' = Len(urls)
  /\ addLevel' = lvl
  /\ IF smi.threw
     THEN /\ ret' = [NoRet EXCEPT !.threw = TRUE]
          /\ urls' = urls
     ELSE /\ urls' = MapSet(urls, smi.smi.url, smi.smi)
          /\ ret' = IF ValidateThrows(smi.smi, lvl)
                    THEN [NoRet EXCEPT !.threw = TRUE]
                    ELSE [NoRet EXCEPT !.num = Len(urls')]
  /\ UNCHANGED <<hostname, cacheTime, cache, cacheSetTimestamp, xslUrl, xmlNs,
                 root, ctorUrls, now>>
  /\ UNCHANGED <<streamVars, normVars, indexVars>>

Add(url, lvl) ==
  LET smi == NormalizeURL(url, hostname) IN
  /\ op' = "add"
  /\ arg' = smi.elem
  /\ sizeBefore' = Len(urls)
  /\ addLevel' = lvl
  /\ IF smi.threw \/ ValidateThrows(smi.smi, lvl)
     THEN /\ ret' = [NoRet EXCEPT !.threw = TRUE]
          /\ urls' = urls
     ELSE /\ urls' = MapSet(urls, smi.smi.url, smi.smi)
          /\ ret' = [NoRet EXCEPT !.num = Len(urls')]
  /\ UNCHANGED <<hostname, cacheTime, cache, cacheSetTimestamp, xslUrl, xmlNs,
                 root, ctorUrls, now>>
  /\ UNCHANGED <<streamVars, normVars, indexVars>>

\* what contains(url) returns for the entries m of a document with this
\* hostname
ContainsResult(m, host, url) ==
  LET smi == NormalizeURL(url, host) IN
  IF smi.threw
  THEN [NoRet EXCEPT !.threw = TRUE]
  ELSE [NoRet EXCEPT !.bool = MapHas(m, smi.smi.url)]

Contains(url) ==
  /\ op' = "contains"
  /\ arg' = NormalizeURL(url, hostname).elem
  /\ sizeBefore' = Len(urls)
  /\ addLevel' = "undefined"
  /\ ret' = ContainsResult(urls, hostname, url)
  /\ UNCHANGED <<hostname, cacheTime, cache, cacheSetTimestamp, xslUrl, xmlNs,
                 root, urls, ctorUrls, now>>
  /\ UNCHANGED <<streamVars, normVars, indexVars>>

Del(url) ==
  LET smi == NormalizeURL(url, hostname) IN
  /\ op' = "del"
  /\ arg' = smi.elem
  /\ sizeBefore' = Len(urls)
  /\ addLevel' = "undefined"
  /\ IF smi.threw
     THEN /\ ret' = [NoRet EXCEPT !.threw = TRUE]
          /\ urls' = urls
     ELSE /\ urls' = MapDelete(urls, smi.smi.url)
          /\ ret' = [NoRet EXCEPT !.bool = MapHas(urls, smi.smi.url)]
  /\ UNCHANGED <<hostname, cacheTime, cache, cacheSetTimestamp, xslUrl, xmlNs,
                 root, ctorUrls, now>>
  /\ UNCHANGED <<streamVars, normVars, indexVars>>

\* toString(pretty) / toXML(pretty); setCache reads the clock again, d
\* later than isCacheValid did
ToString(pretty, d) ==
  LET r1 == IF Len(root.children) # 0
            THEN [root EXCEPT !.children = <<>>]
            ELSE root
      r2 == IF xmlNs = <<>>
            THEN [r1 EXCEPT !.atts = NsAttributes(DefaultNs, @)]
            ELSE r1
      r3 == IF xslUrl # {} THEN InstructionBefore(r2) ELSE r2
      r4 == BuildChildren(r3, urls)
  IN /\ root.instr < MaxInstr
     /\ now + d <= MaxTime
     /\ op' = "toString"
     /\ arg' = NoArg
     /\ sizeBefore' = Len(urls)
     /\ addLevel' = "undefined"
     /\ IF IsCacheValid(now)
        THEN /\ ret' = [NoRet EXCEPT !.str = cache, !.hit = TRUE]
             /\ root' = r3
             /\ UNCHANGED <<cache, cacheSetTimestamp, now>>
        ELSE /\ cache' = End(r4, pretty)
             /\ cacheSetTimestamp' = now + d
             /\ now' = now + d
             /\ root' = r4
             /\ ret' = [NoRet EXCEPT !.str = cache']
     /\ UNCHANGED <<hostname, cacheTime, xslUrl, xmlNs, urls, ctorUrls>>
     /\ UNCHANGED <<streamVars, normVars, indexVars>>

Next ==
  \/ Tick
  \/ ClearCache
  \/ \E url \in DocInputs, lvl \in Levels : Add(url, lvl)
  \/ \E url \in DocInputs : Contains(url)
  \/ \E url \in DocInputs : Del(url)
  \/ \E pretty \in BOOLEAN, d \in 0..1 : ToString(pretty, d)

Spec == Init /\ [][Next]_vars

(***************************************************************************)
(* SitemapStream                                                           *)
(***************************************************************************)
\* the chunks pushed to the readable side: the preamble, one entry's
\* element, the closing tag
PreambleChunk ==
  [kind |-> "preamble", el |-> UrlElement(NoSmi)]

ClosetagChunk ==
  [kind |-> "closetag", el |-> UrlElement(NoSmi)]

\* SitemapItem.justItem(smi, level): the element of one entry as a string
JustItem(smi) ==
  [kind |-> "item", el |-> UrlElement(smi)]

StreamInputs == DocInputs

\* new SitemapStream({hostname, level}); level defaults to warn
StreamConstructor(sHost, sLevel) ==
  /\ hostname = sHost
  /\ level = (IF sLevel = "undefined" THEN "warn" ELSE sLevel)
  /\ hasHeadOutput = FALSE
  /\ output = <<>>
  /\ written = <<>>
  /\ wedged = FALSE
  /\ ended = FALSE

InitStream ==
  /\ \E sHost \in {{}, {HostH1}}, sLevel \in {"undefined", "error"} :
       StreamConstructor(sHost, sLevel)
  /\ DocIdle
  /\ NormIdle
  /\ IndexIdle

\* mutant of Transform: hasHeadOutput is never set
TransformKeepsFlag(item) ==
  LET head == IF ~hasHeadOutput THEN <<PreambleChunk>> ELSE <<>>
      smi == NormalizeURL(item, hostname)
  IN /\ ~wedged
     /\ ~ended
     /\ Len(written) < MaxWrites
     /\ written' = Append(written, item)
     /\ hasHeadOutput' = hasHeadOutput
     /\ IF smi.threw \/ ValidateThrows(smi.smi, level)
        THEN /\ output' = output \o head
             /\ wedged' = TRUE
        ELSE /\ output' = (output \o head) \o <<JustItem(smi.smi)>>
             /\ wedged' = FALSE
     /\ UNCHANGED <<hostname, level, ended>>
     /\ UNCHANGED <<docVars, normVars, indexVars>>

\* stream.write(item): the Transform machinery calls _transform(item).  When
\* normalizeURL or justItem throws, the exception leaves _transform after
\* the pushes already made, callback is never called, and the pending write
\* keeps every later write and the end of the stream from being processed.
Transform(item) ==
  LET head == IF ~hasHeadOutput THEN <<PreambleChunk>> ELSE <<>>
      smi == NormalizeURL(item, hostname)
  IN /\ ~wedged
     /\ ~ended
     /\ Len(written) < MaxWrites
     /\ written' = Append(written, item)
     /\ hasHeadOutput' = TRUE
     /\ IF smi.threw \/ ValidateThrows(smi.smi, level)
        THEN /\ output' = output \o head
             /\ wedged' = TRUE
        ELSE /\ output' = (output \o head) \o <<JustItem(smi.smi)>>
             /\ wedged' = FALSE
     /\ UNCHANGED <<hostname, level, ended>>
     /\ UNCHANGED <<docVars, normVars, indexVars>>

\* stream.end(): once every write has completed, _flush runs
Flush ==
  /\ ~wedged
  /\ ~ended
  /\ output' = Append(output, ClosetagChunk)
  /\ ended' = TRUE
  /\ UNCHANGED <<hostname, level, hasHeadOutput, written, wedged>>
  /\ UNCHANGED <<docVars, normVars, indexVars>>

NextStream ==
  \/ \E item \in StreamInputs : Transform(item)
  \/ Flush

SpecStream == InitStream /\ [][NextStream]_vars

(***************************************************************************)
(* Sitemap.normalizeURL as a function of its arguments                     *)
(***************************************************************************)
Video1 ==
  [thumbnail_loc |-> RelURL(TRUE, <<"t">>),
   content_loc |-> {RelURL(TRUE, <<"c">>)},
   family_friendly |-> "true", live |-> "no",
   requires_subscription |-> "undefined",
   tag |-> [form |-> "single", items |-> <<"t1">>],
   rating |-> [t |-> "string", v |-> 45],
   view_count |-> [t |-> "number", v |-> 3]]

Video2 ==
  [thumbnail_loc |-> AbsURL("h2", TRUE, <<"t">>),
   content_loc |-> {},
   family_friendly |-> "false", live |-> "undefined",
   requires_subscription |-> "yes",
   tag |-> [form |-> "undefined", items |-> <<>>],
   rating |-> [t |-> "undefined", v |-> 0],
   view_count |-> [t |-> "undefined", v |-> 0]]

NormUrls ==
  {PathA, RelURL(FALSE, <<"a">>), AbsA, AbsURL("h2", FALSE, <<>>), BadURLStr}

NormImgs ==
  { Absent,
    [form |-> "string", items |-> <<ImgStr(RelURL(TRUE, <<"i">>))>>],
    [form |-> "string", items |-> <<ImgStr(EmptyStr)>>],
    [form |-> "object", items |-> <<ImgObj(AbsURL("h2", TRUE, <<"i">>), "cap")>>],
    [form |-> "array",
     items |-> <<ImgStr(AbsURL("H1", FALSE, <<>>)),
                 ImgObj(RelURL(FALSE, <<"j">>), "cap")>>],
    [form |-> "array", items |-> <<>>] }

NormLinks ==
  { Absent,
    [form |-> "array", items |-> <<[lang |-> "en", url |-> RelURL(TRUE, <<"en">>)]>>],
    [form |-> "array",
     items |-> <<[lang |-> "en", url |-> AbsURL("h2", TRUE, <<"en">>)],
                 [lang |-> "fr", url |-> RelURL(TRUE, <<"fr">>)]>>],
    [form |-> "object", items |-> <<[lang |-> "en", url |-> RelURL(TRUE, <<"en">>)]>>] }

NormVideos ==
  { Absent,
    [form |-> "object", items |-> <<Video1>>],
    [form |-> "array", items |-> <<Video2, Video1>>] }

\* lastmodfile, lastmodISO, lastmod
NormLastmods ==
  { <<{}, {}, {}>>,
    <<{}, {}, {DateStr(TRUE, 2, FALSE)}>>,
    <<{}, {DateStr(TRUE, 1, TRUE)}, {DateStr(TRUE, 2, FALSE)}>>,
    <<{"exists.txt"}, {DateStr(TRUE, 1, TRUE)}, {DateStr(TRUE, 2, FALSE)}>>,
    <<{"missing.txt"}, {}, {DateStr(TRUE, 2, FALSE)}>>,
    <<{}, {DateStr(FALSE, 0, FALSE)}, {DateStr(TRUE, 2, FALSE)}>>,
    <<{}, {}, {DateStr(FALSE, 0, FALSE)}>> }

NormInputs ==
  {LooseStr(u) : u \in NormUrls}
  \cup
  { [isString |-> FALSE, url |-> u, img |-> i, links |-> l, video |-> v,
     lastmodfile |-> m[1], lastmodISO |-> m[2], lastmod |-> m[3],
     priority |-> p] :
      u \in NormUrls, i \in NormImgs, l \in NormLinks, v \in NormVideos,
      m \in NormLastmods, p \in {{}, {5}} }

\* undefined, 'http://h1', 'http://h2/d/x', and 'h1' (not a URL)
NormHosts ==
  {{}, {HostH1}, {HostH2}, {RelURL(FALSE, <<"h1">>)}}

InitNorm ==
  /\ elem \in NormInputs
  /\ hostname \in NormHosts
  /\ normOut = {}
  /\ DocIdle
  /\ StreamIdle
  /\ IndexIdle

\* one call normalizeURL(elem, undefined, hostname)
CallNormalizeURL ==
  /\ normOut = {}
  /\ normOut' = {NormalizeURL(elem, hostname)}
  /\ UNCHANGED <<hostname, elem>>
  /\ UNCHANGED <<docVars, streamVars, indexVars>>

NextNorm ==
  CallNormalizeURL

SpecNorm == InitNorm /\ [][NextNorm]_vars

(***************************************************************************)
(* Sitemap index (lib/sitemap-index.ts): createSitemapIndex partitions a   *)
(* URL set into documents of bounded size, writes them and an index that   *)
(* references them; buildSitemapIndex builds an index document from a list *)
(* of references.                                                          *)
(***************************************************************************)
\* at most MaxUrls urls are given to createSitemapIndex
MaxUrls == 5

\* sitemapSize ranges over 1..MaxSize
MaxSize == 3

\* at most MaxRefs references are given to buildSitemapIndex
MaxRefs == 3

\* the sequences over S of length at most n
RECURSIVE SeqsUpTo(_, _)
SeqsUpTo(S, n) ==
  IF n = 0 THEN {<<>>}
  ELSE LET shorter == SeqsUpTo(S, n - 1) IN
       shorter \cup {Append(q, x) : q \in {r \in shorter : Len(r) = n - 1}, x \in S}

\* the target folder is not configured, names no directory, or is one
TargetFolders == {"undefined", "missing", "dir"}

IndexUrls == {"http://ya.ru", "http://ya2.ru", "/page"}

RECURSIVE Chunk(_, _)
RECURSIVE ChunkDropsRemainder(_, _)
\* mutant of Chunk: an incomplete last chunk is dropped
ChunkDropsRemainder(list, size) ==
  IF Len(list) < size THEN <<>>
  ELSE <<SubSeq(list, 1, size)>>
         \o ChunkDropsRemainder(SubSeq(list, size + 1, Len(list)), size)

\* consecutive chunks of at most size entries, in the original order
Chunk(list, size) ==
  IF list = <<>> THEN <<>>
  ELSE IF Len(list) <= size THEN <<list>>
  ELSE <<SubSeq(list, 1, size)>>
         \o Chunk(SubSeq(list, size + 1, Len(list)), size)

\* mutant of TargetFolderOk: only an unconfigured folder is rejected
TargetFolderConfigured(folder) ==
  folder # "undefined"

\* the precondition on the target location: it is configured and exists
TargetFolderOk(folder) ==
  folder = "dir"

\* the reference to the i-th partitioned document (counted from 0)
SitemapRef(i, gzip) ==
  [isString |-> TRUE,
   url |-> [file |-> i, ext |-> IF gzip THEN ".xml.gz" ELSE ".xml"],
   lastmod |-> {}]

\* mutant of BuildSitemapIndex: the lastmod of a reference is not emitted
BuildSitemapIndexNoLastmod(list) ==
  [root |-> "sitemapindex",
   children |-> [i \in 1..Len(list) |-> [loc |-> list[i].url, lastmod |-> {}]]]

\* buildSitemapIndex({urls}): one sitemap child per reference, with loc and,
\* when the reference carries one, lastmod
BuildSitemapIndex(list) ==
  [root |-> "sitemapindex",
   children |-> [i \in 1..Len(list) |->
                   [loc |-> list[i].url,
                    lastmod |-> IF list[i].isString THEN {} ELSE list[i].lastmod]]]

InitIndex ==
  /\ indexConf \in [urls : SeqsUpTo(IndexUrls, MaxUrls),
                    sitemapSize : 1..MaxSize,
                    targetFolder : TargetFolders,
                    gzip : BOOLEAN]
  /\ pc = "start"
  /\ chunks = <<>>
  /\ files = <<>>
  /\ indexDoc = {}
  /\ indexErr = "none"
  /\ refs = <<>>
  /\ built = {}
  /\ hostname = {HostH1}
  /\ DocIdle
  /\ StreamIdle
  /\ NormIdle

\* createSitemapIndex starts by checking its target folder
CheckTargetFolder ==
  /\ pc = "start"
  /\ IF TargetFolderOk(indexConf.targetFolder)
     THEN /\ pc' = "partition"
          /\ indexErr' = indexErr
     ELSE /\ pc' = "failed"
          /\ indexErr' = "UndefinedTargetFolder"
  /\ UNCHANGED <<indexConf, chunks, files, indexDoc, refs, built>>
  /\ UNCHANGED <<hostname, docVars, streamVars, normVars>>

Partition ==
  /\ pc = "partition"
  /\ chunks' = Chunk(indexConf.urls, indexConf.sitemapSize)
  /\ pc' = "write"
  /\ UNCHANGED <<indexConf, files, indexDoc, indexErr, refs, built>>
  /\ UNCHANGED <<hostname, docVars, streamVars, normVars>>

\* the next chunk becomes a document, handed to the file-system collaborator
WriteSitemap ==
  /\ pc = "write"
  /\ Len(files) < Len(chunks)
  /\ files' = Append(files, [ref |-> SitemapRef(Len(files), indexConf.gzip),
                             urls |-> chunks[Len(files) + 1]])
  /\ UNCHANGED <<indexConf, pc, chunks, indexDoc, indexErr, refs, built>>
  /\ UNCHANGED <<hostname, docVars, streamVars, normVars>>

\* the index document references every partitioned document
WriteIndex ==
  /\ pc = "write"
  /\ Len(files) = Len(chunks)
  /\ indexDoc' = {BuildSitemapIndex([i \in 1..Len(files) |-> files[i].ref])}
  /\ pc' = "done"
  /\ UNCHANGED <<indexConf, chunks, files, indexErr, refs, built>>
  /\ UNCHANGED <<hostname, docVars, streamVars, normVars>>

NextIndex ==
  \/ CheckTargetFolder
  \/ Partition
  \/ WriteSitemap
  \/ WriteIndex

SpecIndex == InitIndex /\ [][NextIndex]_vars

\* a reference given to buildSitemapIndex: a url string, or an object with
\* url and optional lastmod
RefInputs ==
  {[isString |-> TRUE, url |-> u, lastmod |-> {}] :
     u \in {"https://test.com/s1.xml", "https://test.com/s2.xml"}}
  \cup
  {[isString |-> FALSE, url |-> u, lastmod |-> l] :
     u \in {"https://test.com/s1.xml", "https://test.com/s2.xml"},
     l \in {{}, {"2018-11-26"}, {"2018-11-27"}}}

InitBuildIndex ==
  /\ refs \in SeqsUpTo(RefInputs, MaxRefs)
  /\ built = {}
  /\ indexConf = [urls |-> <<>>, sitemapSize |-> 1, targetFolder |-> "dir",
                  gzip |-> FALSE]
  /\ pc = "idle"
  /\ chunks = <<>>
  /\ files = <<>>
  /\ indexDoc = {}
  /\ indexErr = "none"
  /\ hostname = {}
  /\ DocIdle
  /\ StreamIdle
  /\ NormIdle

\* one call buildSitemapIndex({urls: refs})
CallBuildSitemapIndex ==
  /\ built = {}
  /\ built' = {BuildSitemapIndex(refs)}
  /\ UNCHANGED <<indexConf, pc, chunks, files, indexDoc, indexErr, refs>>
  /\ UNCHANGED <<hostname, docVars, streamVars, normVars>>

NextBuildIndex ==
  CallBuildSitemapIndex

SpecBuildIndex == InitBuildIndex /\ [][NextBuildIndex]_vars

(***************************************************************************)
(* Properties                                                              *)
(***************************************************************************)
Keys(m) ==
  [i \in 1..Len(m) |-> m[i].url]

UniqueByURL ==
  \A i, j \in 1..Len(urls) : urls[i].url = urls[j].url => i = j

\* a successful add of an entry whose resolved URL is already stored leaves
\* the count as it was, stores the entry built from this add, and returns
\* the count
AddReplaces ==
  (op' = "add" /\ ~ret'.threw) =>
    LET smi == NormalizeURL(arg', hostname).smi IN
    /\ MapHas(urls, smi.url) => Len(urls') = Len(urls)
    /\ \E i \in 1..Len(urls') : urls'[i] = smi
    /\ ret'.num = Len(urls')

\* C1: in every state reached by the constructor and any sequence of add
\* and del no two stored entries have the same resolved URL; adding a URL
\* that is already present leaves the entry count unchanged and the entry
\* stored under it afterwards is the one built from that add.
C1_UniqueByResolvedURL ==
  []UniqueByURL /\ [][AddReplaces]_vars

\* an add has just replaced the entry of a URL that was present
C1_Witness ==
  /\ op = "add"
  /\ ~ret.threw
  /\ sizeBefore >= 1
  /\ ret.num = sizeBefore

\* url and other denote the same page: the same url, or '/a' and
\* 'http://H1/a' in a document whose hostname is 'http://h1'
SamePage(url, other) ==
  \/ url.url = other.url
  \/ /\ hostname = {HostH1}
     /\ {url.url, other.url} = {PathA, AbsA}

\* C2: contains(X) returns true immediately after a successful add(X) and
\* false immediately after del(X), whether X is given in relative form or
\* as the absolute URL it resolves to.
C2_ContainsAfterAddDel ==
  (op \in {"add", "del"} /\ ~ret.threw) =>
    \A other \in DocInputs \cup {arg} :
      SamePage(arg, other) =>
        LET r == ContainsResult(urls, hostname, other) IN
        /\ ~r.threw
        /\ r.bool = (op = "add")

\* del has just removed an entry that add had inserted into a document
\* constructed empty, and another entry is still there
C2_Witness ==
  /\ op = "del"
  /\ ret.bool
  /\ arg.url = AbsA
  /\ ctorUrls = <<>>
  /\ Len(urls) = 1

ToStringStep ==
  \E pretty \in BOOLEAN, d \in 0..1 : ToString(pretty, d)

\* C3: with a non-zero cacheTime, a toString call that follows another
\* toString call with no add, del or clearCache in between, and is made
\* while the cache the first call returned is within its TTL window,
\* returns the very string the first call returned, from the cache, and
\* leaves the cache slot as it was.
C3_CachedWithinTTL ==
  [][(/\ op = "toString"
      /\ cacheTime # 0
      /\ now <= cacheSetTimestamp + cacheTime
      /\ ToStringStep)
     => (/\ ret'.hit
         /\ ret'.str = ret.str
         /\ cache' = cache
         /\ cacheSetTimestamp' = cacheSetTimestamp)]_vars

\* a later toString call was answered from the cache
C3_Witness ==
  /\ op = "toString"
  /\ ret.hit
  /\ ret.str = cache
  /\ now > cacheSetTimestamp
  /\ Len(ret.str.items) >= 1

\* C4: a toString call that reserializes a document unchanged since the
\* previous serialization (the previous call reserialized too and only
\* time has passed since) returns a document content-identical to the
\* previous one, with exactly one stylesheet instruction when an xslUrl is
\* configured and none otherwise.
C4_ReserializeIdentical ==
  [][(/\ op = "toString"
      /\ ~ret.hit
      /\ ToStringStep
      /\ ~ret'.hit)
     => (/\ Content(ret'.str) = Content(ret.str)
         /\ ret'.str.instr = (IF xslUrl # {} THEN 1 ELSE 0))]_vars

\* the url elements of the entries m, in the order of m
Items(m) ==
  [i \in 1..Len(m) |-> UrlElement(m[i])]

\* C5: with cacheTime = 0 isCacheValid is false whatever the clock says,
\* every toString call reserializes, and the string it returns holds
\* exactly the elements of the entries present at the time of the call.
C5_NoCacheWhenZero ==
  cacheTime = 0 =>
    /\ \A t \in 0..(MaxTime + 1) : ~IsCacheValid(t)
    /\ op = "toString" =>
         /\ ~ret.hit
         /\ ret.str.items = Items(urls)

\* the second toString call of a document with cacheTime = 0 (it holds as
\* many stylesheet instructions as toString was called), made in the same
\* millisecond as the first, after two entries were added
C5_Witness ==
  /\ cacheTime = 0
  /\ op = "toString"
  /\ ctorUrls = <<>>
  /\ Len(urls) = 2
  /\ root.instr = 2
  /\ now = 1
  /\ ~cache.empty

\* C6: a successful add or del leaves the cached string and
\* cacheSetTimestamp as they were, so a toString call made after it within
\* the TTL still returns the cached string; the first toString call after
\* clearCache reserializes from the current entries, however much of the
\* TTL remains.
C6_AddDelKeepCache ==
  [][/\ (op' \in {"add", "del"}) =>
          (cache' = cache /\ cacheSetTimestamp' = cacheSetTimestamp)
     /\ (/\ op \in {"add", "del"}
         /\ cacheTime # 0
         /\ ~cache.empty
         /\ now <= cacheSetTimestamp + cacheTime
         /\ ToStringStep)
        => (ret'.hit /\ ret'.str = cache)
     /\ (op = "clearCache" /\ ToStringStep)
        => (~ret'.hit /\ ret'.str.items = Items(urls))]_vars

\* toString has returned a cached string that no longer matches the
\* entries: an add or del was made after it was cached
C6_Witness ==
  /\ op = "toString"
  /\ ret.hit
  /\ ret.str.items # Items(urls)
  /\ Len(urls) > Len(ret.str.items)

\* the fragments of the items written, in the order they were written
RECURSIVE Fragments(_, _)
Fragments(items, host) ==
  IF items = <<>> THEN <<>>
  ELSE <<JustItem(NormalizeURL(Head(items), host).smi)>>
         \o Fragments(Tail(items), host)

\* C7: once a stream that received n entries has ended, its output is the
\* closing tag alone when n = 0, and otherwise the preamble once, the n
\* entry fragments in the order the entries were received, and the closing
\* tag once, last; and at no time does an entry fragment precede the
\* preamble.
C7_StreamOutput ==
  /\ ended =>
       output = (IF written = <<>>
                 THEN <<>>
                 ELSE <<PreambleChunk>> \o Fragments(written, hostname))
                \o <<ClosetagChunk>>
  /\ \A i \in 1..Len(output) :
       output[i].kind = "item" => (i > 1 /\ output[1].kind = "preamble")

\* a stream that received two entries has ended
C7_Witness ==
  /\ ended
  /\ Len(written) = 2
  /\ Len(output) = 4

\* the first occurrence of every element of a sequence, in order
RECURSIVE FirstOccurrences(_, _)
FirstOccurrences(seq, seen) ==
  IF seq = <<>> THEN <<>>
  ELSE IF Head(seq) \in seen
       THEN FirstOccurrences(Tail(seq), seen)
       ELSE <<Head(seq)>> \o FirstOccurrences(Tail(seq), seen \cup {Head(seq)})

\* the constructor stores the resolved URLs of its list in the order of
\* their first occurrence
CtorOrder ==
  op = "new" =>
    Keys(urls) =
      FirstOccurrences([i \in 1..Len(ctorUrls) |->
                          NewURL(ctorUrls[i].url, hostname).href], {})

\* add appends a new URL and leaves the position of a present one, del
\* removes its URL and nothing else, and a reserializing toString emits the
\* elements of the stored entries, one each, in the stored order
OrderStep ==
  /\ (op' = "add" /\ ~ret'.threw) =>
       LET k == NewURL(arg'.url, hostname).href IN
       Keys(urls') = (IF MapHas(urls, k) THEN Keys(urls)
                      ELSE Append(Keys(urls), k))
  /\ (op' = "del" /\ ~ret'.threw) =>
       LET k == NewURL(arg'.url, hostname).href IN
       Keys(urls') = SelectSeq(Keys(urls), LAMBDA x : x # k)
  /\ (op' = "toString" /\ ~ret'.hit) =>
       /\ Len(ret'.str.items) = Len(urls')
       /\ \A i \in 1..Len(urls') : ret'.str.items[i] = UrlElement(urls'[i])

\* C8: a reserializing toString emits exactly one child element per stored
\* entry, in insertion order: the order in which the resolved URLs were
\* first inserted by the constructor list and then by add, where a re-add
\* of a present URL keeps its position and a URL deleted and added again
\* moves to the end.
C8_InsertionOrder ==
  []CtorOrder /\ [][OrderStep]_vars

\* a document constructed with '/a' before '/b' has reserialized with '/b'
\* before '/a': '/a' was deleted and added again
C8_Witness ==
  /\ op = "toString"
  /\ ~ret.hit
  /\ Len(ctorUrls) = 3
  /\ Len(ret.str.items) = 2
  /\ ret.str.items[1].loc = NewURL(PathB, hostname).href
  /\ ret.str.items[2].loc = NewURL(PathA, hostname).href

\* C9: when normalizeURL returns for a loose entry (bare string or object)
\* whose url is relative, the strict entry's url is the relative url
\* resolved against the hostname, an absolute URL on the hostname's host;
\* for an absolute url it is that url resolved to itself, the same whatever
\* the hostname.
C9_UrlResolved ==
  \A o \in normOut :
    ~o.threw =>
      /\ elem.url.kind = "rel" =>
           /\ o.smi.url = NewURL(elem.url, hostname).href
           /\ o.smi.url.kind = "abs"
           /\ \E b \in hostname : o.smi.url.host = ToLowerHost(b.host)
      /\ elem.url.kind = "abs" =>
           /\ o.smi.url = NewURL(elem.url, {}).href
           /\ o.smi.url.host = ToLowerHost(elem.url.host)

\* an object entry with an image whose url 'a' is relative to the
\* directory of the hostname 'http://h2/d/x' has been normalized
C9_Witness ==
  \E o \in normOut :
    /\ ~o.threw
    /\ ~elem.isString
    /\ elem.url = RelURL(FALSE, <<"a">>)
    /\ hostname = {HostH2}
    /\ elem.img.form = "array"
    /\ o.smi.url = AbsURL("h2", TRUE, <<"d", "a">>)

\* the image items the loose entry gives, whatever their form
GivenImgs(e) ==
  IF ImgTruthy(e.img) THEN e.img.items ELSE <<>>

IsAbsolute(u) ==
  u.kind = "abs"

\* C10 as stated: with a hostname configured, every image URL, every video
\* thumbnail and content URL and every alternate-link URL of the strict
\* entry is absolute.
C10_AllURLsAbsolute ==
  \A o \in normOut :
    (~o.threw /\ hostname # {}) =>
      /\ \A i \in 1..Len(o.smi.img) : IsAbsolute(o.smi.img[i].url)
      /\ \A i \in 1..Len(o.smi.links) : IsAbsolute(o.smi.links[i].url)
      /\ \A i \in 1..Len(o.smi.video) :
           /\ IsAbsolute(o.smi.video[i].thumbnail_loc)
           /\ \A c \in o.smi.video[i].content_loc : IsAbsolute(c)

\* C10 (amended): with a hostname configured, every image URL and every
\* alternate-link URL of the strict entry is absolute, the given URL
\* resolved against the hostname by the rule of the entry's own url; the
\* video thumbnail and content URLs are the given ones, not resolved.
C10_ImgAndLinkURLsAbsolute ==
  \A o \in normOut :
    (~o.threw /\ hostname # {}) =>
      /\ Len(o.smi.img) = Len(GivenImgs(elem))
      /\ \A i \in 1..Len(o.smi.img) :
           /\ IsAbsolute(o.smi.img[i].url)
           /\ o.smi.img[i].url = NewURL(GivenImgs(elem)[i].url, hostname).href
      /\ Len(o.smi.links) = Len(elem.links.items)
      /\ \A i \in 1..Len(o.smi.links) :
           /\ IsAbsolute(o.smi.links[i].url)
           /\ o.smi.links[i].url = NewURL(elem.links.items[i].url, hostname).href
      /\ Len(o.smi.video) = Len(elem.video.items)
      /\ \A i \in 1..Len(o.smi.video) :
           /\ o.smi.video[i].thumbnail_loc = elem.video.items[i].thumbnail_loc
           /\ o.smi.video[i].content_loc = elem.video.items[i].content_loc

\* an entry with relative image, link and video thumbnail URLs has been
\* normalized against a hostname
C10_Witness ==
  \E o \in normOut :
    /\ ~o.threw
    /\ hostname = {HostH2}
    /\ Len(o.smi.img) = 2
    /\ elem.img.items[2].url.kind = "rel"
    /\ Len(o.smi.links) = 2
    /\ elem.links.items[2].url.kind = "rel"
    /\ Len(o.smi.video) = 2
    /\ o.smi.video[2].thumbnail_loc.kind = "rel"

\* the list a field of the strict entry holds for what the loose entry gave:
\* one element per given item, in the given order; the one string that is
\* falsy, '', gives no image
ImgListed(e, smi) ==
  /\ Len(smi.img) = Len(GivenImgs(e))
  /\ \A i \in 1..Len(smi.img) : smi.img[i].caption = GivenImgs(e)[i].caption

VideoListed(e, smi) ==
  /\ Len(smi.video) = Len(e.video.items)
  /\ \A i \in 1..Len(smi.video) :
       smi.video[i].thumbnail_loc = e.video.items[i].thumbnail_loc

LinksListed(e, smi) ==
  /\ Len(smi.links) = Len(e.links.items)
  /\ \A i \in 1..Len(smi.links) : smi.links[i].lang = e.links.items[i].lang

\* the form says how many items were given
FormLength(f) ==
  /\ f.form = "absent" => Len(f.items) = 0
  /\ f.form \in {"string", "object"} => Len(f.items) = 1

\* the loose entry with its single link given as a one-element list
LinksAsList(e) ==
  [e EXCEPT !.links = [form |-> "array", items |-> @.items]]

\* C11 as stated: img, video and links each accept a single item or a list:
\* a single item is taken as the one-element list of that item, and the
\* strict entry holds one element per given item, in the given order.
C11_SingleOrListGivesList ==
  \A o \in normOut :
    /\ elem.links.form = "object" =>
         o.threw = NormalizeURL(LinksAsList(elem), hostname).threw
    /\ ~o.threw =>
         /\ ImgListed(elem, o.smi)
         /\ VideoListed(elem, o.smi)
         /\ LinksListed(elem, o.smi)

\* C11 (amended): img and video accept a single item or a list, links only
\* a list.  When normalizeURL returns, each of the three fields of the strict
\* entry is a list with one element per given item in the given order
\* (absent: empty, single: one element, an img of '' counting as absent);
\* a links field given as a single object makes normalizeURL throw.
C11_ImgVideoSingleOrList ==
  \A o \in normOut :
    /\ FormLength(elem.img) /\ FormLength(elem.video) /\ FormLength(elem.links)
    /\ elem.links.form = "object" => o.threw
    /\ ~o.threw =>
         /\ elem.links.form \in {"absent", "array"}
         /\ ImgListed(elem, o.smi)
         /\ VideoListed(elem, o.smi)
         /\ LinksListed(elem, o.smi)

\* an entry with a single image object, a single video object and a list of
\* two links has been normalized
C11_Witness ==
  \E o \in normOut :
    /\ ~o.threw
    /\ elem.img.form = "object"
    /\ elem.video.form = "object"
    /\ elem.links.form = "array"
    /\ Len(o.smi.img) = 1
    /\ Len(o.smi.video) = 1
    /\ Len(o.smi.links) = 2

\* C12: when normalizeURL returns, the strict entry's lastmod is the
\* modification time of lastmodfile when that is given, whatever lastmodISO
\* and lastmod hold; otherwise the date of lastmodISO when that is given;
\* otherwise the date of lastmod; and there is no lastmod when none of the
\* three is given.  The date is in ISO-8601 form.
C12_LastmodPrecedence ==
  \A o \in normOut :
    ~o.threw =>
      /\ elem.lastmodfile # {} =>
           o.smi.lastmod = {DateStr(TRUE, m.day, TRUE) :
                              m \in UNION {StatSync(f) : f \in elem.lastmodfile}}
      /\ (elem.lastmodfile = {} /\ elem.lastmodISO # {}) =>
           o.smi.lastmod = {DateStr(TRUE, d.day, TRUE) : d \in elem.lastmodISO}
      /\ (elem.lastmodfile = {} /\ elem.lastmodISO = {}) =>
           o.smi.lastmod = {DateStr(TRUE, d.day, TRUE) : d \in elem.lastmod}
      /\ \A d \in o.smi.lastmod : d.valid /\ d.full

\* an entry giving all three of lastmodfile, lastmodISO and lastmod, each a
\* different instant, has been normalized to the file's modification time
C12_Witness ==
  \E o \in normOut :
    /\ ~o.threw
    /\ elem.lastmodfile = {"exists.txt"}
    /\ elem.lastmodISO = {DateStr(TRUE, 1, TRUE)}
    /\ elem.lastmod = {DateStr(TRUE, 2, FALSE)}
    /\ o.smi.lastmod = {DateStr(TRUE, 7, TRUE)}

\* the url of an entry cannot be resolved: no URL parser accepts it, or it
\* is relative and the document has no hostname
Unresolvable(e) ==
  \/ e.url.kind = "bad"
  \/ e.url.kind = "rel" /\ hostname = {}

\* C13: an add whose entry has a URL that cannot be resolved fails, and
\* leaves the entries and their order, the cache string, the cache timestamp
\* and the XML tree of the document as they were.
C13_FailedAddLeavesDocument ==
  [][(op' = "add" /\ Unresolvable(arg')) =>
       /\ ret'.threw
       /\ urls' = urls
       /\ cache' = cache
       /\ cacheSetTimestamp' = cacheSetTimestamp
       /\ root' = root]_vars

\* add of the relative '/a' has failed on a document without hostname that
\* holds entries and a cached serialization
C13_Witness ==
  /\ op = "add"
  /\ ret.threw
  /\ arg.url = PathA
  /\ hostname = {}
  /\ Len(urls) = 2
  /\ ~cache.empty

\* the entry violates a check of the validator: its priority is above 1.0
OutOfRange(e) ==
  \E p \in e.priority : p > 10

\* C14: for an entry that normalizes and violates a check, add at level
\* error fails and leaves the entries as they were; add at level warn or
\* silent, or with no level (the default, warn), stores the normalized entry
\* under its resolved URL and returns the new count.
C14_LevelGatesAdmission ==
  [][(op' = "add" /\ ~Unresolvable(arg') /\ OutOfRange(arg')) =>
       LET smi == NormalizeURL(arg', hostname).smi IN
       /\ addLevel' = "error" => (ret'.threw /\ urls' = urls)
       /\ addLevel' # "error" =>
            /\ ~ret'.threw
            /\ \E i \in 1..Len(urls') : urls'[i] = smi
            /\ ret'.num = Len(urls')
            /\ Len(urls') = Len(urls) + (IF MapHas(urls, smi.url) THEN 0 ELSE 1)]_vars

\* add at level error of an entry with priority 2.0 has failed, and the
\* valid entry stored under the same URL is still there
C14_Witness ==
  /\ op = "add"
  /\ addLevel = "error"
  /\ ret.threw
  /\ OutOfRange(arg)
  /\ \E i \in 1..Len(urls) :
       /\ urls[i].url = NewURL(arg.url, hostname).href
       /\ urls[i].priority = {}

RECURSIVE Flatten(_)
Flatten(seqs) ==
  IF seqs = <<>> THEN <<>> ELSE Head(seqs) \o Flatten(Tail(seqs))

\* C15: when createSitemapIndex has finished for n urls and sitemapSize s,
\* it has written exactly ceil(n/s) documents, each holding at least one and
\* at most s urls, whose concatenation is the input in its order, and the
\* index holds exactly one reference per document, in document order.
C15_PartitionAndIndex ==
  pc = "done" =>
    LET n == Len(indexConf.urls)
        s == indexConf.sitemapSize
    IN /\ Len(files) = (n + s - 1) \div s
       /\ \A i \in 1..Len(files) : Len(files[i].urls) \in 1..s
       /\ Flatten([i \in 1..Len(files) |-> files[i].urls]) = indexConf.urls
       /\ indexDoc # {}
       /\ \A d \in indexDoc :
            /\ Len(d.children) = Len(files)
            /\ \A i \in 1..Len(files) :
                 /\ d.children[i].loc = files[i].ref.url
                 /\ d.children[i].loc.file = i - 1

\* five urls with a limit of two per document have given three documents
\* and an index of three references
C15_Witness ==
  /\ pc = "done"
  /\ Len(indexConf.urls) = 5
  /\ indexConf.sitemapSize = 2
  /\ Len(files) = 3
  /\ \E d \in indexDoc : Len(d.children) = 3

\* C16: with a target folder that is not configured or does not exist,
\* createSitemapIndex does no partitioning and writes no document and no
\* index, whatever the urls, and its failure is UndefinedTargetFolder; with
\* an existing target folder there is no such failure.
C16_FailsFastOnTargetFolder ==
  /\ indexConf.targetFolder \in {"undefined", "missing"} =>
       /\ chunks = <<>>
       /\ files = <<>>
       /\ indexDoc = {}
       /\ pc \in {"start", "failed"}
       /\ pc = "failed" => indexErr = "UndefinedTargetFolder"
  /\ indexConf.targetFolder = "dir" => (pc # "failed" /\ indexErr = "none")

\* createSitemapIndex has failed for two urls and a folder that does not
\* exist
C16_Witness ==
  /\ pc = "failed"
  /\ indexErr = "UndefinedTargetFolder"
  /\ indexConf.targetFolder = "missing"
  /\ Len(indexConf.urls) = 2

\* C17: buildSitemapIndex gives a sitemapindex root with exactly one sitemap
\* child per reference, in the order given, whose loc is the url given and
\* which has a lastmod exactly when the reference supplied one.
C17_OneChildPerReference ==
  \A b \in built :
    /\ b.root = "sitemapindex"
    /\ Len(b.children) = Len(refs)
    /\ \A i \in 1..Len(refs) :
         /\ b.children[i].loc = refs[i].url
         /\ b.children[i].lastmod = refs[i].lastmod

\* an index has been built from s1.xml with a lastmod, s2.xml given as a
\* string, and s2.xml with another lastmod
C17_Witness ==
  \E b \in built :
    /\ Len(refs) = 3
    /\ refs[1].lastmod = {"2018-11-26"}
    /\ refs[2].isString
    /\ refs[3].lastmod = {"2018-11-27"}
    /\ b.children[1].lastmod = {"2018-11-26"}
    /\ b.children[2].lastmod = {}

\* C18: a toString call is answered from the cache exactly when cacheTime is
\* non-zero, the cache is non-empty and less than cacheTime milliseconds
\* have passed since the cache was set; once cacheTime milliseconds or more
\* have passed the call reserializes.
C18_ValidOnlyWithinCacheTime ==
  [][ToStringStep =>
       (ret'.hit <=> (/\ cacheTime # 0
                      /\ ~cache.empty
                      /\ now - cacheSetTimestamp < cacheTime))]_vars

\* C19: normalizeURL leaves the loose entry it is given as it was: after the
\* call, whether it returned or threw, every field of the caller's entry has
\* the value it had before.
C19_InputUnchanged ==
  \A o \in normOut : o.elem = elem

DelStep ==
  \E url \in DocInputs : Del(url)

\* C20: a del call that returns reports true exactly when an entry with the
\* resolved URL of its argument was stored when it was called; it removes
\* that entry and leaves every other entry as it was and where it was
\* relative to the others; when no such entry was stored the entries are
\* unchanged; the cache and the XML tree are untouched either way.
C20_DelRemovesExactlyThatEntry ==
  [][(DelStep /\ ~ret'.threw) =>
       LET k == NewURL(arg'.url, hostname).href
           present == \E i \in 1..Len(urls) : urls[i].url = k
       IN /\ ret'.bool = present
          /\ urls' = SelectSeq(urls, LAMBDA x : x.url # k)
          /\ present => Len(urls') = Len(urls) - 1
          /\ ~present => urls' = urls
          /\ cache' = cache
          /\ cacheSetTimestamp' = cacheSetTimestamp
          /\ root' = root]_vars

\* del('/a') has returned true on a document holding '/a' and '/b': '/b' is
\* left, with its image
C20_Witness ==
  /\ op = "del"
  /\ ret.bool
  /\ arg.url = PathA
  /\ sizeBefore = 2
  /\ Len(urls) = 1
  /\ urls[1].url = NewURL(PathB, hostname).href
  /\ Len(urls[1].img) = 1

\* C21: the stream emits chunks only for entries that normalize: an emitted
\* preamble is followed by the fragment of the entry that triggered it, the
\* first one written, and a stream whose first entry failed has emitted
\* nothing.
C21_PreambleOnlyWithFragment ==
  /\ \A i \in 1..Len(output) :
       output[i].kind = "preamble" =>
         /\ i < Len(output)
         /\ output[i + 1].kind = "item"
         /\ output[i + 1] = JustItem(NormalizeURL(written[1], hostname).smi)
  /\ (wedged /\ Len(written) = 1) => output = <<>>

====
